---------------------------- MODULE Spec2Model ----------------------------
(***************************************************************************)
(* Model of dungeon_of_madness (src/src/main.rs): the streaming controller *)
(* (wait_for_start_hall, track_current_level), the spawn observer          *)
(* (attempt_spawn_level) with its wall-code generator (fix_rand_by_code),  *)
(* the level-name codec (parse_level_code) and the movement resolver       *)
(* (player_keyboard_commands).                                             *)
(*                                                                         *)
(* World coordinates are integers (one world unit, products truncated     *)
(* toward zero); elapsed seconds and direction components are ratios       *)
(* <<numerator, denominator>>.  Option<T> is a sequence of length at most  *)
(* one: <<>> is None (or a panic where stated), <<x>> is Some(x).          *)
(***************************************************************************)
EXTENDS Integers, Sequences, FiniteSets, TLC

VARIABLES
    gameState,      \* GameState: "Loading" or "Playing"
    levels,         \* the ShieldtankLevel entities, in spawn order
    currentLevel,   \* the CurrentLevel resource: <<>> before it is inserted
    location,       \* the skeleton's world location <<x, y>>
    flip_x,         \* the skeleton tile's flip_x flag
    crashed,        \* TRUE once a panic aborted the process
    last,           \* the last step: the system that ran, its inputs and
                    \* the AttemptSpawnLevel events it triggered
    moves,          \* number of runs of player_keyboard_commands so far
    gen,            \* the last call of the wall-code generator on its own
    parsed          \* the last call of parse_level_code on its own

vars == <<gameState, levels, currentLevel, location, flip_x, crashed,
          last, moves, gen, parsed>>

None == <<>>
Some(x) == <<x>>

-----------------------------------------------------------------------------
(* Program constants *)

LEVEL_SIZE == 144
PLAYER_MOVE_SPEED == 90

\* FRAC_1_SQRT_2 as a fixed-point ratio <<numerator, denominator>>
FRAC_1_SQRT_2 == <<7071, 10000>>

LEVEL_UP == <<0, LEVEL_SIZE>>
LEVEL_RIGHT == <<LEVEL_SIZE, 0>>
LEVEL_DOWN == <<0, 0 - LEVEL_SIZE>>
LEVEL_LEFT == <<0 - LEVEL_SIZE, 0>>

WALL_UP == 1
WALL_RIGHT == 2
WALL_DOWN == 4
WALL_LEFT == 8

\* rand.next_lim_u16(15): the exclusive limit of the draw
RAND_LIM == 15

\* (0..15).contains(&code): the exclusive limit of a valid code
CODE_LIM == 15

CENTER_OFFSET == <<LEVEL_SIZE \div 2, 0 - (LEVEL_SIZE \div 2)>>

VAdd(a, b) == <<a[1] + b[1], a[2] + b[2]>>

-----------------------------------------------------------------------------
(* u16 bit operations *)

RECURSIVE BitAnd(_, _)
BitAnd(a, b) ==
    IF a = 0 \/ b = 0 THEN 0
    ELSE (a % 2) * (b % 2) + 2 * BitAnd(a \div 2, b \div 2)

RECURSIVE BitOr(_, _)
BitOr(a, b) ==
    IF a = 0 THEN b
    ELSE IF b = 0 THEN a
    ELSE (IF a % 2 = 1 \/ b % 2 = 1 THEN 1 ELSE 0)
         + 2 * BitOr(a \div 2, b \div 2)

RECURSIVE BitXor(_, _)
BitXor(a, b) ==
    IF a = 0 THEN b
    ELSE IF b = 0 THEN a
    ELSE ((a + b) % 2) + 2 * BitXor(a \div 2, b \div 2)

-----------------------------------------------------------------------------
(* Level names: strings are sequences of one-character strings *)

Digits == <<"0", "1", "2", "3", "4", "5", "6", "7", "8", "9">>

START_HALL_NAME == <<"S", "t", "a", "r", "t", "_", "H", "a", "l", "l">>
LEVEL_PREFIX == <<"L", "e", "v", "e", "l", "_">>

\* format!("{n}") of an unsigned integer
RECURSIVE FormatU16(_)
FormatU16(n) ==
    IF n < 10 THEN <<Digits[n + 1]>>
    ELSE FormatU16(n \div 10) \o <<Digits[(n % 10) + 1]>>

\* the level name of the asset label format!("...#world:Dungeon/Level_{rand}")
LevelName(rand) == LEVEL_PREFIX \o FormatU16(rand)

IsDigit(c) == \E d \in 1..10 : Digits[d] = c
DigitValue(c) == (CHOOSE d \in 1..10 : Digits[d] = c) - 1

\* the value of a non-empty digit string, or 65536 (one past u16::MAX) as
\* soon as it overflows a u16
RECURSIVE DigitsValue(_)
DigitsValue(s) ==
    IF s = <<>> THEN 0
    ELSE LET hi == DigitsValue(SubSeq(s, 1, Len(s) - 1))
             v == hi * 10 + DigitValue(s[Len(s)])
         IN IF hi > 65535 \/ v > 65535 THEN 65536 ELSE v

\* str::parse::<u16>(): one optional leading "+", then one or more digits,
\* the value at most u16::MAX; None stands for Err
ParseU16(s) ==
    LET body == IF s # <<>> /\ s[1] = "+" THEN Tail(s) ELSE s
    IN IF body = <<>> THEN None
       ELSE IF \E i \in 1..Len(body) : ~IsDigit(body[i]) THEN None
       ELSE IF DigitsValue(body) > 65535 THEN None
       ELSE Some(DigitsValue(body))

\* parse_level_code with the range 0..=15 of its doc comment
parse_level_code_inclusive(level_name) ==
    IF level_name = START_HALL_NAME THEN Some(0)
    ELSE IF Len(level_name) < 6 THEN None
    ELSE IF SubSeq(level_name, 1, 6) = LEVEL_PREFIX
         THEN LET code == ParseU16(SubSeq(level_name, 7, Len(level_name)))
              IN IF code = None THEN None
                 ELSE IF code[1] >= 0 /\ code[1] <= CODE_LIM
                      THEN code
                      ELSE None
    ELSE None

\* parse_level_code: Some(code), or None when the call panics
parse_level_code(level_name) ==
    IF level_name = START_HALL_NAME THEN Some(0)
    ELSE IF Len(level_name) < 6 THEN None
    ELSE IF SubSeq(level_name, 1, 6) = LEVEL_PREFIX
         THEN LET code == ParseU16(SubSeq(level_name, 7, Len(level_name)))
              IN IF code = None THEN None
                 ELSE IF code[1] >= 0 /\ code[1] < CODE_LIM
                      THEN code
                      ELSE None
    ELSE None

-----------------------------------------------------------------------------
(* The wall-code generator *)

\* fix_rand_by_code testing the neighbor's bit of the same direction
fix_rand_by_code_same_wall(rand, code, wall, opposite_wall) ==
    IF code # None
    THEN IF BitAnd(code[1], wall) = 0
         THEN BitAnd(rand, BitXor(wall, 15))
         ELSE BitOr(rand, wall)
    ELSE rand

\* fix_rand_by_code without its else branch
fix_rand_by_code_never_sets(rand, code, wall, opposite_wall) ==
    IF code # None
    THEN IF BitAnd(code[1], opposite_wall) = 0
         THEN BitAnd(rand, BitXor(wall, 15))
         ELSE rand
    ELSE rand

\* fix_rand_by_code without its then branch
fix_rand_by_code_never_clears(rand, code, wall, opposite_wall) ==
    IF code # None
    THEN IF BitAnd(code[1], opposite_wall) = 0
         THEN rand
         ELSE BitOr(rand, wall)
    ELSE rand

\* fix_rand_by_code with its two branches exchanged
fix_rand_by_code_inverted(rand, code, wall, opposite_wall) ==
    IF code # None
    THEN IF BitAnd(code[1], opposite_wall) = 0
         THEN BitOr(rand, wall)
         ELSE BitAnd(rand, BitXor(wall, 15))
    ELSE rand

\* fix_rand_by_code clearing the bit of a direction without a neighbor
fix_rand_by_code_unknown_open(rand, code, wall, opposite_wall) ==
    IF code # None
    THEN IF BitAnd(code[1], opposite_wall) = 0
         THEN BitAnd(rand, BitXor(wall, 15))
         ELSE BitOr(rand, wall)
    ELSE BitAnd(rand, BitXor(wall, 15))

\* the closure fix_rand_by_code, with the captured rand made a parameter
\* and its new value the result
fix_rand_by_code(rand, code, wall, opposite_wall) ==
    IF code # None
    THEN IF BitAnd(code[1], opposite_wall) = 0
         THEN BitAnd(rand, BitXor(wall, 15))
         ELSE BitOr(rand, wall)
    ELSE rand

\* the four calls of fix_rand_by_code, in the order of the source
FixRand(rand, up, right, down, left) ==
    LET r1 == fix_rand_by_code(rand, up, WALL_UP, WALL_DOWN)
        r2 == fix_rand_by_code(r1, right, WALL_RIGHT, WALL_LEFT)
        r3 == fix_rand_by_code(r2, down, WALL_DOWN, WALL_UP)
    IN fix_rand_by_code(r3, left, WALL_LEFT, WALL_RIGHT)

\* the values rand.next_lim_u16(15) can return
Draws == 0..(RAND_LIM - 1)

\* what a neighbor lookup can yield: None or Some(code) of a parsed name
NeighborCodes == {None} \cup {Some(c) : c \in 0..(CODE_LIM - 1)}


-----------------------------------------------------------------------------
(* The chunk bounds index (QueryByGlobalBounds over the ShieldtankLevel     *)
(* entities whose ShieldtankWorldBounds are known)                          *)

\* a level: its name, its world location (the upper left corner of its
\* rectangle) and whether its bounds are known yet
Level(name, at) == [name |-> name, at |-> at, bounds_known |-> FALSE]

\* the inclusive rectangle test of a level whose upper left corner is at
LevelContains(at, p) ==
    /\ p[1] >= at[1] /\ p[1] <= at[1] + LEVEL_SIZE
    /\ p[2] <= at[2] /\ p[2] >= at[2] - LEVEL_SIZE

by_location(lv, p) ==
    {i \in DOMAIN lv : lv[i].bounds_known /\ LevelContains(lv[i].at, p)}

\* the level containing p: the first one in entity order, None when there
\* is none
single_by_location(lv, p) ==
    LET found == by_location(lv, p)
    IN IF found = {} THEN None
       ELSE Some(CHOOSE i \in found : \A j \in found : i <= j)

any(lv, p) == by_location(lv, p) # {}

-----------------------------------------------------------------------------
(* attempt_spawn_level: the observer of AttemptSpawnLevel                   *)

\* .ok().map(|level_name| parse_level_code(level_name)) at a sample point:
\* the neighbor's code, and whether parse_level_code panicked
NeighborCode(lv, p) ==
    LET found == single_by_location(lv, p)
    IN IF found = None THEN [panic |-> FALSE, code |-> None]
       ELSE LET code == parse_level_code(lv[found[1]].name)
            IN [panic |-> code = None, code |-> code]

\* attempt_spawn_level without its early return
attempt_spawn_level_no_dedup(st, at, draw) ==
    LET lv == st.levels
        center == VAdd(at, CENTER_OFFSET)
        up == NeighborCode(lv, VAdd(center, LEVEL_UP))
        right == NeighborCode(lv, VAdd(center, LEVEL_RIGHT))
        down == NeighborCode(lv, VAdd(center, LEVEL_DOWN))
        left == NeighborCode(lv, VAdd(center, LEVEL_LEFT))
        rand == FixRand(draw, up.code, right.code, down.code, left.code)
    IN IF st.crashed THEN st
       ELSE IF up.panic \/ right.panic \/ down.panic \/ left.panic
       THEN [st EXCEPT !.crashed = TRUE]
       ELSE [st EXCEPT !.levels = Append(lv, Level(LevelName(rand), at))]

\* attempt_spawn_level returning early also for a level already spawned at
\* the event's location whose bounds are not known yet
attempt_spawn_level_tracks_requested(st, at, draw) ==
    LET lv == st.levels
        center == VAdd(at, CENTER_OFFSET)
        up == NeighborCode(lv, VAdd(center, LEVEL_UP))
        right == NeighborCode(lv, VAdd(center, LEVEL_RIGHT))
        down == NeighborCode(lv, VAdd(center, LEVEL_DOWN))
        left == NeighborCode(lv, VAdd(center, LEVEL_LEFT))
        rand == FixRand(draw, up.code, right.code, down.code, left.code)
    IN IF st.crashed THEN st
       ELSE IF single_by_location(lv, center) # None THEN st
       ELSE IF \E i \in DOMAIN lv : lv[i].at = at THEN st
       ELSE IF up.panic \/ right.panic \/ down.panic \/ left.panic
       THEN [st EXCEPT !.crashed = TRUE]
       ELSE [st EXCEPT !.levels = Append(lv, Level(LevelName(rand), at))]

\* st is [levels, crashed]: the entities and whether the process aborted;
\* at is the event's location, draw the value rand.next_lim_u16(15) returns
\* if the observer gets that far
attempt_spawn_level(st, at, draw) ==
    LET lv == st.levels
        center == VAdd(at, CENTER_OFFSET)
        up == NeighborCode(lv, VAdd(center, LEVEL_UP))
        right == NeighborCode(lv, VAdd(center, LEVEL_RIGHT))
        down == NeighborCode(lv, VAdd(center, LEVEL_DOWN))
        left == NeighborCode(lv, VAdd(center, LEVEL_LEFT))
        rand == FixRand(draw, up.code, right.code, down.code, left.code)
    IN IF st.crashed THEN st
       ELSE IF single_by_location(lv, center) # None THEN st
       ELSE IF up.panic \/ right.panic \/ down.panic \/ left.panic
       THEN [st EXCEPT !.crashed = TRUE]
       ELSE [st EXCEPT !.levels = Append(lv, Level(LevelName(rand), at))]

\* the events of one system, observed in the order they were triggered
RECURSIVE Trigger(_, _, _)
Trigger(st, ats, draws) ==
    IF ats = <<>> THEN st
    ELSE Trigger(attempt_spawn_level(st, Head(ats), Head(draws)),
                 Tail(ats), Tail(draws))


-----------------------------------------------------------------------------
(* player_keyboard_commands: the movement resolver                          *)

\* (up_pressed, right_pressed, down_pressed, left_pressed)
KEY_UP == <<TRUE, FALSE, FALSE, FALSE>>
KEY_UP_RIGHT == <<TRUE, TRUE, FALSE, FALSE>>
KEY_RIGHT == <<FALSE, TRUE, FALSE, FALSE>>
KEY_DOWN_RIGHT == <<FALSE, TRUE, TRUE, FALSE>>
KEY_DOWN == <<FALSE, FALSE, TRUE, FALSE>>
KEY_DOWN_LEFT == <<FALSE, FALSE, TRUE, TRUE>>
KEY_LEFT == <<FALSE, FALSE, FALSE, TRUE>>
KEY_UP_LEFT == <<TRUE, FALSE, FALSE, TRUE>>

AllKeys == {<<u, r, d, l>> : u \in BOOLEAN, r \in BOOLEAN,
                             d \in BOOLEAN, l \in BOOLEAN}

Zero == <<0, 1>>
One == <<1, 1>>
Neg(c) == <<0 - c[1], c[2]>>

\* a match on the right and left keys alone
FlipAfter_side_keys(dir, flip) ==
    IF dir[2] THEN FALSE
    ELSE IF dir[4] THEN TRUE
    ELSE flip

\* the second match: tile.flip_x(false), tile.flip_x(true) or nothing
FlipAfter(dir, flip) ==
    IF dir \in {KEY_UP_RIGHT, KEY_RIGHT, KEY_DOWN_RIGHT} THEN FALSE
    ELSE IF dir \in {KEY_UP_LEFT, KEY_LEFT, KEY_DOWN_LEFT} THEN TRUE
    ELSE flip

\* a match that lets up win over down when both are held
DirNormal_up_wins(dir) ==
    CASE dir[1] /\ ~dir[2] /\ ~dir[4] -> Some(<<Zero, One>>)
      [] dir = KEY_UP_RIGHT -> Some(<<FRAC_1_SQRT_2, FRAC_1_SQRT_2>>)
      [] dir = KEY_RIGHT -> Some(<<One, Zero>>)
      [] dir = KEY_DOWN_RIGHT -> Some(<<FRAC_1_SQRT_2, Neg(FRAC_1_SQRT_2)>>)
      [] dir = KEY_DOWN -> Some(<<Zero, Neg(One)>>)
      [] dir = KEY_DOWN_LEFT ->
            Some(<<Neg(FRAC_1_SQRT_2), Neg(FRAC_1_SQRT_2)>>)
      [] dir = KEY_LEFT -> Some(<<Neg(One), Zero>>)
      [] dir = KEY_UP_LEFT -> Some(<<Neg(FRAC_1_SQRT_2), FRAC_1_SQRT_2>>)
      [] OTHER -> None

\* the direction normal: Some(<<x, y>>), or None where the match returns
DirNormal(dir) ==
    CASE dir = KEY_UP -> Some(<<Zero, One>>)
      [] dir = KEY_UP_RIGHT -> Some(<<FRAC_1_SQRT_2, FRAC_1_SQRT_2>>)
      [] dir = KEY_RIGHT -> Some(<<One, Zero>>)
      [] dir = KEY_DOWN_RIGHT -> Some(<<FRAC_1_SQRT_2, Neg(FRAC_1_SQRT_2)>>)
      [] dir = KEY_DOWN -> Some(<<Zero, Neg(One)>>)
      [] dir = KEY_DOWN_LEFT ->
            Some(<<Neg(FRAC_1_SQRT_2), Neg(FRAC_1_SQRT_2)>>)
      [] dir = KEY_LEFT -> Some(<<Neg(One), Zero>>)
      [] dir = KEY_UP_LEFT -> Some(<<Neg(FRAC_1_SQRT_2), FRAC_1_SQRT_2>>)
      [] OTHER -> None

\* a / b truncated toward zero, b > 0
TruncDiv(a, b) == IF a >= 0 THEN a \div b ELSE 0 - ((0 - a) \div b)

\* a step that leaves out time.delta_secs()
Advance_per_frame(c, dt) == TruncDiv(c[1] * PLAYER_MOVE_SPEED, c[2])

\* one component of dir * time.delta_secs() * PLAYER_MOVE_SPEED
Advance(c, dt) == TruncDiv(c[1] * dt[1] * PLAYER_MOVE_SPEED, c[2] * dt[2])

\* location.get() + dir * time.delta_secs() * PLAYER_MOVE_SPEED
NewLocation(loc, normal, dt) ==
    <<loc[1] + Advance(normal[1], dt), loc[2] + Advance(normal[2], dt)>>

\* global_bounds.bounds().half_size() of the skeleton: set by the asset,
\* fixed here
HALF_SIZE == <<8, 8>>

\* the upper corners of the skeleton's rectangle centered at p
TopLeft(p) == <<p[1] - HALF_SIZE[1], p[2] + HALF_SIZE[2]>>
TopRight(p) == <<p[1] + HALF_SIZE[1], p[2] + HALF_SIZE[2]>>

\* grid_query.grid_value_at(p).is_none(), occupied being the points of the
\* obstacle grid that hold a value
GridClear(occupied, p) == p \notin occupied

\* sensor1 || sensor2
SensorsClear_either(occupied, new_location) ==
    \/ GridClear(occupied, TopLeft(new_location))
    \/ GridClear(occupied, TopRight(new_location))

\* sensor1 && sensor2
SensorsClear(occupied, new_location) ==
    /\ GridClear(occupied, TopLeft(new_location))
    /\ GridClear(occupied, TopRight(new_location))


\* player_keyboard_commands without its first guard
Resolve_no_guard(lv, loc, flip, dir, dt, occupied) ==
    LET normal == DirNormal(dir)
        flipped == FlipAfter(dir, flip)
    IN IF normal = None THEN [location |-> loc, flip_x |-> flipped]
       ELSE LET new_location == NewLocation(loc, normal[1], dt)
            IN IF SensorsClear(occupied, new_location)
               THEN [location |-> new_location, flip_x |-> flipped]
               ELSE [location |-> loc, flip_x |-> flipped]

\* the body of player_keyboard_commands: the skeleton's location and flip_x
\* after the system ran with the keys dir held for dt seconds
Resolve(lv, loc, flip, dir, dt, occupied) ==
    IF ~any(lv, loc) THEN [location |-> loc, flip_x |-> flip]
    ELSE LET normal == DirNormal(dir)
             flipped == FlipAfter(dir, flip)
         IN IF normal = None THEN [location |-> loc, flip_x |-> flipped]
            ELSE LET new_location == NewLocation(loc, normal[1], dt)
                 IN IF SensorsClear(occupied, new_location)
                    THEN [location |-> new_location, flip_x |-> flipped]
                    ELSE [location |-> loc, flip_x |-> flipped]

\* the obstacle grid around the candidate location: the corners named in
\* walls hold a value, every other point is empty
Obstacles(loc, dir, dt, walls) ==
    IF DirNormal(dir) = None THEN {}
    ELSE LET c == NewLocation(loc, DirNormal(dir)[1], dt)
         IN {TopLeft(c) : w \in walls \cap {"top_left"}}
            \cup {TopRight(c) : w \in walls \cap {"top_right"}}

-----------------------------------------------------------------------------
(* The state machine *)

\* what a step records of itself
Step(op, reqs, dir, dt, occupied, from) ==
    [op |-> op, requests |-> reqs, dir |-> dir, dt |-> dt,
     occupied |-> occupied, from |-> from]

SystemStep(op, reqs) == Step(op, reqs, <<>>, <<>>, {}, <<>>)

\* the state after setup, the Start_Hall asset placing the skeleton at start
InitAt(start) ==
    /\ gameState = "Loading"
    /\ levels = <<Level(START_HALL_NAME, <<0, 0>>)>>
    /\ currentLevel = None
    /\ location = start
    /\ flip_x = FALSE
    /\ crashed = FALSE
    /\ last = SystemStep("setup", <<>>)
    /\ moves = 0
    /\ gen = [rand |-> 0, codes |-> <<None, None, None, None>>, out |-> 0,
              calls |-> 0]
    /\ parsed = [name |-> <<>>, out |-> None, calls |-> 0]

\* the skeleton starts in the middle of the start hall
Init == InitAt(VAdd(<<0, 0>>, CENTER_OFFSET))

\* the skeleton starts on the upper left corner of the start hall
InitCorner == InitAt(<<0, 0>>)

\* the asset collaborator reports level i: its bounds become known
level_loaded(i) ==
    /\ ~crashed
    /\ i \in DOMAIN levels
    /\ ~levels[i].bounds_known
    /\ levels' = [levels EXCEPT ![i].bounds_known = TRUE]
    /\ last' = SystemStep("level_loaded", <<>>)
    /\ UNCHANGED <<gameState, currentLevel, location, flip_x, crashed,
                   moves, gen, parsed>>

\* the entity of START_HALL_IID with its bounds known, if any
StartHall ==
    {i \in DOMAIN levels :
        levels[i].name = START_HALL_NAME /\ levels[i].bounds_known}

\* wait_for_start_hall with the event to the left forgotten
wait_for_start_hall_three_sides(draws, maxLevels) ==
    /\ ~crashed
    /\ gameState = "Loading"
    /\ StartHall # {}
    /\ LET ats == <<LEVEL_UP, LEVEL_RIGHT, LEVEL_DOWN>>
           st == Trigger([levels |-> levels, crashed |-> crashed], ats, draws)
       IN /\ Len(st.levels) <= maxLevels
          /\ currentLevel' = Some(CHOOSE i \in StartHall : TRUE)
          /\ levels' = st.levels
          /\ crashed' = st.crashed
          /\ last' = SystemStep("wait_for_start_hall", ats)
    /\ gameState' = "Playing"
    /\ UNCHANGED <<location, flip_x, moves, gen, parsed>>

\* wait_for_start_hall without next_state.set(GameState::Playing)
wait_for_start_hall_no_transition(draws, maxLevels) ==
    /\ ~crashed
    /\ gameState = "Loading"
    /\ StartHall # {}
    /\ LET ats == <<LEVEL_UP, LEVEL_RIGHT, LEVEL_DOWN, LEVEL_LEFT>>
           st == Trigger([levels |-> levels, crashed |-> crashed], ats, draws)
       IN /\ Len(st.levels) <= maxLevels
          /\ currentLevel' = Some(CHOOSE i \in StartHall : TRUE)
          /\ levels' = st.levels
          /\ crashed' = st.crashed
          /\ last' = SystemStep("wait_for_start_hall", ats)
    /\ gameState' = "Loading"
    /\ UNCHANGED <<location, flip_x, moves, gen, parsed>>

wait_for_start_hall(draws, maxLevels) ==
    /\ ~crashed
    /\ gameState = "Loading"
    /\ StartHall # {}
    /\ LET ats == <<LEVEL_UP, LEVEL_RIGHT, LEVEL_DOWN, LEVEL_LEFT>>
           st == Trigger([levels |-> levels, crashed |-> crashed], ats, draws)
       IN /\ Len(st.levels) <= maxLevels
          /\ currentLevel' = Some(CHOOSE i \in StartHall : TRUE)
          /\ levels' = st.levels
          /\ crashed' = st.crashed
          /\ last' = SystemStep("wait_for_start_hall", ats)
    /\ gameState' = "Playing"
    /\ UNCHANGED <<location, flip_x, moves, gen, parsed>>

\* TrackTargets with the test of each bit negated
TrackTargets_closed_edges(level_location, level_code) ==
    (IF BitAnd(level_code, WALL_UP) # 0
        THEN <<VAdd(level_location, LEVEL_UP)>> ELSE <<>>)
    \o (IF BitAnd(level_code, WALL_RIGHT) # 0
        THEN <<VAdd(level_location, LEVEL_RIGHT)>> ELSE <<>>)
    \o (IF BitAnd(level_code, WALL_DOWN) # 0
        THEN <<VAdd(level_location, LEVEL_DOWN)>> ELSE <<>>)
    \o (IF BitAnd(level_code, WALL_LEFT) # 0
        THEN <<VAdd(level_location, LEVEL_LEFT)>> ELSE <<>>)

\* TrackTargets without the trigger to the right
TrackTargets_no_right(level_location, level_code) ==
    (IF BitAnd(level_code, WALL_UP) = 0
        THEN <<VAdd(level_location, LEVEL_UP)>> ELSE <<>>)
    \o (IF BitAnd(level_code, WALL_DOWN) = 0
        THEN <<VAdd(level_location, LEVEL_DOWN)>> ELSE <<>>)
    \o (IF BitAnd(level_code, WALL_LEFT) = 0
        THEN <<VAdd(level_location, LEVEL_LEFT)>> ELSE <<>>)

\* the AttemptSpawnLevel locations track_current_level triggers for a new
\* level at level_location with code level_code
TrackTargets(level_location, level_code) ==
    (IF BitAnd(level_code, WALL_UP) = 0
        THEN <<VAdd(level_location, LEVEL_UP)>> ELSE <<>>)
    \o (IF BitAnd(level_code, WALL_RIGHT) = 0
        THEN <<VAdd(level_location, LEVEL_RIGHT)>> ELSE <<>>)
    \o (IF BitAnd(level_code, WALL_DOWN) = 0
        THEN <<VAdd(level_location, LEVEL_DOWN)>> ELSE <<>>)
    \o (IF BitAnd(level_code, WALL_LEFT) = 0
        THEN <<VAdd(level_location, LEVEL_LEFT)>> ELSE <<>>)

\* the events of this run of track_current_level; <<>> also when the
\* skeleton is in no level, in the current level, or the name does not parse
TrackRequests ==
    LET found == single_by_location(levels, location)
    IN IF found = None \/ found = currentLevel THEN <<>>
       ELSE LET code == parse_level_code(levels[found[1]].name)
            IN IF code = None THEN <<>>
               ELSE TrackTargets(levels[found[1]].at, code[1])

\* track_current_level unwrapping the result of the lookup
track_current_level_unwrap(draws, maxLevels) ==
    /\ ~crashed
    /\ gameState = "Playing"
    /\ LET found == single_by_location(levels, location)
           ats == TrackRequests
           st == Trigger([levels |-> levels, crashed |-> crashed], ats, draws)
       IN /\ Len(st.levels) <= maxLevels
          /\ IF found = None
             THEN /\ crashed' = TRUE
                  /\ UNCHANGED <<currentLevel, levels>>
             ELSE /\ currentLevel' = found
                  /\ levels' = st.levels
                  /\ crashed' =
                        IF found # currentLevel
                           /\ parse_level_code(levels[found[1]].name) = None
                        THEN TRUE ELSE st.crashed
          /\ last' = SystemStep("track_current_level", ats)
    /\ UNCHANGED <<gameState, location, flip_x, moves, gen, parsed>>

track_current_level(draws, maxLevels) ==
    /\ ~crashed
    /\ gameState = "Playing"
    /\ LET found == single_by_location(levels, location)
           ats == TrackRequests
           st == Trigger([levels |-> levels, crashed |-> crashed], ats, draws)
       IN /\ Len(st.levels) <= maxLevels
          /\ IF found = None
             THEN UNCHANGED <<currentLevel, levels, crashed>>
             ELSE /\ currentLevel' = found
                  /\ levels' = st.levels
                  /\ crashed' =
                        IF found # currentLevel
                           /\ parse_level_code(levels[found[1]].name) = None
                        THEN TRUE ELSE st.crashed
          /\ last' = SystemStep("track_current_level", ats)
    /\ UNCHANGED <<gameState, location, flip_x, moves, gen, parsed>>

player_keyboard_commands(dir, dt, walls, maxMoves) ==
    /\ ~crashed
    /\ gameState = "Playing"
    /\ moves < maxMoves
    /\ LET occupied == Obstacles(location, dir, dt, walls)
           after == Resolve(levels, location, flip_x, dir, dt, occupied)
       IN /\ location' = after.location
          /\ flip_x' = after.flip_x
          /\ last' = Step("player_keyboard_commands", <<>>, dir, dt,
                          occupied, location)
    /\ moves' = moves + 1
    /\ UNCHANGED <<gameState, levels, currentLevel, crashed, gen,
                   parsed>>

\* one call of the generator on its own: a draw and four neighbor codes
generate(draw, up, right, down, left) ==
    /\ gen.calls = 0
    /\ gen' = [rand |-> draw, codes |-> <<up, right, down, left>>,
               out |-> FixRand(draw, up, right, down, left), calls |-> 1]
    /\ UNCHANGED <<gameState, levels, currentLevel, location, flip_x,
                   crashed, last, moves, parsed>>

\* one call of parse_level_code on its own
parse(level_name) ==
    /\ parsed.calls = 0
    /\ parsed' = [name |-> level_name, out |-> parse_level_code(level_name),
                  calls |-> 1]
    /\ UNCHANGED <<gameState, levels, currentLevel, location, flip_x,
                   crashed, last, moves, gen>>

-----------------------------------------------------------------------------
(* Specifications *)

MaxLevels == 6
MaxMoves == 2
MaxLevelsMove == 5
MaxMovesMove == 2

\* the controller's specification: the draws, keys and elapsed times it
\* takes its inputs from
SpawnDraws == {9, 11}
SpawnKeys == {KEY_UP, KEY_RIGHT, KEY_DOWN, KEY_LEFT}
SpawnSecs == {One}

Next ==
    \/ \E i \in DOMAIN levels : level_loaded(i)
    \/ \E draws \in [1..4 -> SpawnDraws] :
          wait_for_start_hall(draws, MaxLevels)
    \/ \E draws \in [1..Len(TrackRequests) -> SpawnDraws] :
          track_current_level(draws, MaxLevels)
    \/ \E dir \in SpawnKeys, dt \in SpawnSecs :
          player_keyboard_commands(dir, dt, {}, MaxMoves)

Spec == Init /\ [][Next]_vars

\* the guard of wait_for_start_hall: run_if(in_state(Loading)) and the
\* start hall's bounds known
StartHallReady == ~crashed /\ gameState = "Loading" /\ StartHall # {}

\* the controller with its scheduling: the start hall's asset finishes
\* loading, and wait_for_start_hall runs on every Update while Loading.
\* wait_for_start_hall is enabled exactly when StartHallReady holds and
\* disables itself, so its weak fairness is that StartHallReady does not
\* hold forever.
SpecLive ==
    /\ Spec
    /\ WF_vars(level_loaded(1))
    /\ []<>~StartHallReady

\* the resolver's specification: every key combination held for one
\* second, the four single keys also for 4/5 of a second, and every
\* obstacle layout of the two sensors
MoveDraws == {11}
MoveInputs ==
    {<<dir, One>> : dir \in AllKeys}
    \cup {<<dir, <<4, 5>>>> : dir \in {KEY_UP, KEY_RIGHT, KEY_DOWN, KEY_LEFT}}
MoveWalls == SUBSET {"top_left", "top_right"}

NextMove ==
    \/ \E i \in DOMAIN levels : level_loaded(i)
    \/ \E draws \in [1..4 -> MoveDraws] :
          wait_for_start_hall(draws, MaxLevelsMove)
    \/ \E draws \in [1..Len(TrackRequests) -> MoveDraws] :
          track_current_level(draws, MaxLevelsMove)
    \/ \E input \in MoveInputs, walls \in MoveWalls :
          player_keyboard_commands(input[1], input[2], walls, MaxMovesMove)

SpecMove == InitCorner /\ [][NextMove]_vars

\* the controller with the draws that leave one open edge, to the left or
\* upward
MaxLevelsCodes == 6
MaxMovesCodes == 1
CodesDraws == {7, 14}

NextCodes ==
    \/ \E i \in DOMAIN levels : level_loaded(i)
    \/ \E draws \in [1..4 -> CodesDraws] :
          wait_for_start_hall(draws, MaxLevelsCodes)
    \/ \E draws \in [1..Len(TrackRequests) -> CodesDraws] :
          track_current_level(draws, MaxLevelsCodes)
    \/ \E dir \in SpawnKeys, dt \in SpawnSecs :
          player_keyboard_commands(dir, dt, {}, MaxMovesCodes)

SpecCodes == Init /\ [][NextCodes]_vars

\* the generator's specification: every draw with every neighbor codes
NextGen ==
    /\ gen.calls = 0
    /\ \E draw \in Draws, up \in NeighborCodes, right \in NeighborCodes,
          down \in NeighborCodes, left \in NeighborCodes :
             generate(draw, up, right, down, left)

SpecGen == Init /\ [][NextGen]_vars

\* the names given to parse_level_code: a beginning followed by at most
\* MaxSuffix characters, and the names of the numbers around both limits
MaxSuffix == 3
NameChars == {"0", "1", "4", "5", "+", "-", "_", "x"}
NameHeads ==
    {LEVEL_PREFIX, START_HALL_NAME, <<>>, <<"L", "e", "v", "e", "l">>,
     <<"l", "e", "v", "e", "l", "_">>}
NameTails == UNION {[1..k -> NameChars] : k \in 0..MaxSuffix}
NumberNames ==
    {LevelName(n) : n \in (0..20) \cup {65535, 65536, 99999}}
        \cup {LEVEL_PREFIX \o <<"+">> \o FormatU16(n) : n \in {9, 14, 15}}
Names == {h \o t : h \in NameHeads, t \in NameTails} \cup NumberNames

\* the codec's specification: parse_level_code on every name of Names
NextParse ==
    /\ parsed.calls = 0
    /\ \E level_name \in Names : parse(level_name)

SpecParse == Init /\ [][NextParse]_vars


-----------------------------------------------------------------------------
(* Properties *)

\* the wall code of level i (15 or more, or an unparsable name: no code)
CodeOf(i) == parse_level_code(levels[i].name)

\* bit b (0 = up, 1 = right, 2 = down, 3 = left) of a wall code
WallBit(code, b) == (code \div (2 ^ b)) % 2

Loaded == {i \in DOMAIN levels : levels[i].bounds_known}

\* C1: any two loaded levels in grid-adjacent cells agree on the bit of
\* their shared edge: east of the western one = west of the eastern one,
\* north of the southern one = south of the northern one.
C1_SharedEdgesAgree ==
    \A i \in Loaded, j \in Loaded :
        CodeOf(i) # None /\ CodeOf(j) # None =>
            /\ levels[j].at = <<levels[i].at[1] + 144, levels[i].at[2]>>
                  => WallBit(CodeOf(i)[1], 1) = WallBit(CodeOf(j)[1], 3)
            /\ levels[j].at = <<levels[i].at[1], levels[i].at[2] + 144>>
                  => WallBit(CodeOf(i)[1], 0) = WallBit(CodeOf(j)[1], 2)

\* the directions of the generator call whose neighbor is known, with the
\* bit of the generated code and the opposite bit of the neighbor:
\* <<direction bit, opposite bit>>
Facing == {<<0, 2>>, <<1, 3>>, <<2, 0>>, <<3, 1>>}
KnownFacing == {f \in Facing : gen.codes[f[1] + 1] # None}

C3_KnownEdgesForced ==
    gen.calls = 1 =>
        \A f \in KnownFacing :
            WallBit(gen.out, f[1]) = WallBit(gen.codes[f[1] + 1][1], f[2])

\* a draw whose up bit is set and right bit is clear, forced the other way
\* on both by an open north neighbor and a walled east neighbor
C3_Witness ==
    /\ gen.calls = 1
    /\ gen.rand = 5
    /\ gen.codes = <<Some(3), Some(8), None, None>>
    /\ gen.out = 6

\* C4: the step that leaves Loading is taken with the start hall's bounds
\* known, records the start hall as the current level, triggers exactly
\* the four events at (0,144), (144,0), (0,-144), (-144,0), in that order,
\* and ends in Playing.
C4_StartHallStep ==
    [][gameState = "Loading" /\ gameState' # "Loading" =>
          /\ gameState' = "Playing"
          /\ \E i \in DOMAIN levels :
                /\ levels[i].name = START_HALL_NAME
                /\ levels[i].bounds_known
                /\ levels[i].at = <<0, 0>>
                /\ currentLevel' = Some(i)
          /\ last'.requests =
                <<<<0, 144>>, <<144, 0>>, <<0, -144>>, <<-144, 0>>>>]_vars

C4_Witness ==
    /\ gameState = "Playing"
    /\ last.op = "wait_for_start_hall"
    /\ currentLevel = Some(1)
    /\ Len(last.requests) = 4

\* C5: no two levels, requested or loaded, have the same location.
C5_OneLevelPerCell ==
    \A i \in DOMAIN levels, j \in DOMAIN levels :
        i # j => levels[i].at # levels[j].at

\* the last step was a run of player_keyboard_commands
Resolved == last.op = "player_keyboard_commands"

\* the number of keys held in the last run
Held == Cardinality({k \in 1..4 : last.dir[k]})

\* one key, or two keys that are not opposite
Recognized ==
    /\ Held \in {1, 2}
    /\ ~(last.dir[1] /\ last.dir[3])
    /\ ~(last.dir[2] /\ last.dir[4])

\* the skeleton was inside a loaded level when the last run started (a run
\* of the resolver changes no level)
WasInside ==
    \E i \in Loaded :
        /\ last.from[1] >= levels[i].at[1]
        /\ last.from[1] <= levels[i].at[1] + 144
        /\ last.from[2] <= levels[i].at[2]
        /\ last.from[2] >= levels[i].at[2] - 144

\* the candidate location of the last run
Candidate == NewLocation(last.from, DirNormal(last.dir)[1], last.dt)

\* the two sample points of the last run
Sample1 == <<Candidate[1] - HALF_SIZE[1], Candidate[2] + HALF_SIZE[2]>>
Sample2 == <<Candidate[1] + HALF_SIZE[1], Candidate[2] + HALF_SIZE[2]>>

\* C6: for a recognized heading with the skeleton inside a loaded level,
\* the location becomes the candidate exactly when the obstacle grid is
\* empty at both sample points; otherwise it is exactly unchanged.
C6_BothSensorsOrNothing ==
    Resolved /\ Recognized /\ WasInside =>
        /\ Candidate # last.from
        /\ IF Sample1 \notin last.occupied /\ Sample2 \notin last.occupied
           THEN location = Candidate
           ELSE location = last.from

\* top-left occupied, top-right clear: the move is rejected
C6_Witness ==
    /\ Resolved /\ Recognized /\ WasInside
    /\ last.occupied = {Sample1}
    /\ Sample1 # Sample2
    /\ location = last.from

\* C7: the eight unrecognized key combinations leave the location
\* unchanged; each of the eight recognized ones changes it when the
\* skeleton is inside a loaded level and both sample points are empty.
C7_EightHeadings ==
    Resolved =>
        /\ ~Recognized => location = last.from
        /\ Recognized /\ WasInside /\ last.occupied = {}
              => location # last.from

\* up and down held together: nothing moves
C7_Witness ==
    /\ Resolved
    /\ last.dir = <<TRUE, FALSE, TRUE, FALSE>>
    /\ WasInside
    /\ location = last.from

\* speed 90 times the elapsed time of the last run
Travel == (90 * last.dt[1]) \div last.dt[2]

\* C8: with exactly one key held, the skeleton inside a loaded level and
\* both sample points empty, the new location is the old one plus the
\* unit vector of that key times 90 times the elapsed time.
C8_CardinalStep ==
    Resolved /\ Held = 1 /\ WasInside /\ last.occupied = {} =>
        /\ (90 * last.dt[1]) % last.dt[2] = 0
        /\ last.dir[1] => location = <<last.from[1], last.from[2] + Travel>>
        /\ last.dir[2] => location = <<last.from[1] + Travel, last.from[2]>>
        /\ last.dir[3] => location = <<last.from[1], last.from[2] - Travel>>
        /\ last.dir[4] => location = <<last.from[1] - Travel, last.from[2]>>

\* only up held for one second at (0,0): the skeleton is at (0,90)
C8_Witness ==
    /\ Resolved
    /\ last.dir = <<TRUE, FALSE, FALSE, FALSE>>
    /\ last.dt = <<1, 1>>
    /\ last.from = <<0, 0>>
    /\ location = <<0, 90>>

\* the skeleton is inside no loaded level
InSpace ==
    \A i \in Loaded :
        \/ location[1] < levels[i].at[1]
        \/ location[1] > levels[i].at[1] + 144
        \/ location[2] > levels[i].at[2]
        \/ location[2] < levels[i].at[2] - 144

\* C9: while the skeleton is inside no loaded level, no step changes its
\* location, whatever keys are held and whatever the obstacle grid holds.
C9_StuckInSpace == [][InSpace => location' = location]_vars

\* a run of the resolver with a recognized heading and an empty grid, the
\* skeleton inside no loaded level
C9_Witness ==
    /\ Resolved /\ Recognized /\ ~WasInside
    /\ last.occupied = {}
    /\ InSpace
    /\ location = last.from

\* the events of the step whose cell center is inside no loaded level,
\* lv being the levels before the step
FreeRequests(lv, reqs) ==
    {k \in DOMAIN reqs :
        \A i \in DOMAIN lv :
            lv[i].bounds_known =>
                \/ reqs[k][1] + 72 < lv[i].at[1]
                \/ reqs[k][1] + 72 > lv[i].at[1] + 144
                \/ reqs[k][2] - 72 > lv[i].at[2]
                \/ reqs[k][2] - 72 < lv[i].at[2] - 144}

\* C10: an event whose cell center lies inside a loaded level is a no-op:
\* a controller step keeps every level it found, adds one level per event
\* whose cell is free and none for the others, and leaves the skeleton's
\* location alone.
C10_OccupiedCellNoOp ==
    [][last'.op \in {"wait_for_start_hall", "track_current_level"} =>
          LET free == FreeRequests(levels, last'.requests)
          IN /\ SubSeq(levels', 1, Len(levels)) = levels
             /\ Len(levels') = Len(levels) + Cardinality(free)
             /\ \A n \in (Len(levels) + 1)..Len(levels') :
                   \E k \in free : levels'[n].at = last'.requests[k]
             /\ \A k \in DOMAIN last'.requests :
                   k \notin free =>
                       \A n \in (Len(levels) + 1)..Len(levels') :
                           levels'[n].at # last'.requests[k]
             /\ location' = location]_vars

\* a step of track_current_level with an event on a loaded level's cell,
\* and still exactly one level there
C10_Witness ==
    /\ last.op = "track_current_level"
    /\ \E k \in DOMAIN last.requests :
          /\ k \notin FreeRequests(levels, last.requests)
          /\ Cardinality({i \in DOMAIN levels :
                             levels[i].at = last.requests[k]}) = 1


\* C11 as claimed: no call of the generator produces the code 0.
C11_NeverZero == gen.calls = 1 => gen.out # 0

\* C11 as amended: the generator produces 0 exactly when every known
\* neighbor is open toward the cell and the draw's bit is 0 for every
\* direction without a known neighbor; the name it gives is Level_0, never
\* Start_Hall.
C11_ZeroWhenNothingWalls ==
    gen.calls = 1 =>
        /\ gen.out = 0 <=>
              \A f \in Facing :
                  IF gen.codes[f[1] + 1] # None
                  THEN WallBit(gen.codes[f[1] + 1][1], f[2]) = 0
                  ELSE WallBit(gen.rand, f[1]) = 0
        /\ LevelName(gen.out) # START_HALL_NAME
        /\ gen.out = 0 =>
              LevelName(gen.out) = <<"L", "e", "v", "e", "l", "_", "0">>

\* the draw 5 between the start hall to the north and an open level to
\* the south: both of its bits are cleared
C11_Witness ==
    /\ gen.calls = 1
    /\ gen.rand = 5
    /\ gen.codes = <<Some(0), None, Some(10), None>>
    /\ gen.out = 0

\* C15: the generated code's bit for each direction whose neighbor is
\* unknown equals that bit of the draw; with all four neighbors unknown
\* the generated code is the draw.
C15_UnknownEdgesAsDrawn ==
    gen.calls = 1 =>
        /\ \A f \in Facing \ KnownFacing :
              WallBit(gen.out, f[1]) = WallBit(gen.rand, f[1])
        /\ KnownFacing = {} => gen.out = gen.rand

\* the draw 13 with neighbors to the east and south only: its up and left
\* bits are kept
C15_Witness ==
    /\ gen.calls = 1
    /\ gen.rand = 13
    /\ gen.codes = <<None, Some(8), Some(14), None>>
    /\ gen.out = 11


\* the names Start_Hall and Level_<n>, n written in decimal, for n in 0..14
PlainNames == {START_HALL_NAME} \cup {LevelName(n) : n \in 0..14}

Spelled(name) ==
    {n \in 0..14 :
        \E sign \in {<<>>, <<"+">>}, z \in 0..Len(name) :
            name = LEVEL_PREFIX \o sign \o [i \in 1..z |-> "0"]
                       \o FormatU16(n)}

C13_SpaceWalkChangesNothing ==
    [][last'.op = "track_current_level" /\ InSpace =>
          /\ currentLevel' = currentLevel
          /\ levels' = levels
          /\ last'.requests = <<>>
          /\ gameState = "Playing" /\ gameState' = "Playing"
          /\ ~crashed'
          /\ location' = location /\ flip_x' = flip_x
          /\ InSpace']_vars

\* track_current_level has run with the skeleton in space, away from the
\* start hall it last recorded
C13_Witness ==
    /\ last.op = "track_current_level"
    /\ InSpace
    /\ gameState = "Playing" /\ ~crashed
    /\ currentLevel = Some(1)
    /\ location # <<72, -72>>

\* the loaded levels containing the skeleton
Under ==
    {i \in Loaded :
        /\ location[1] >= levels[i].at[1]
        /\ location[1] <= levels[i].at[1] + 144
        /\ location[2] <= levels[i].at[2]
        /\ location[2] >= levels[i].at[2] - 144}

\* the neighbor cell of a level's location in direction b
\* (0 = up, 1 = right, 2 = down, 3 = left)
CellToward(at, b) ==
    <<at[1] + <<0, 144, 0, -144>>[b + 1], at[2] + <<144, 0, -144, 0>>[b + 1]>>

C16_LoadingOncePlayingForever ==
    /\ gameState = "Loading" /\ currentLevel = None
    /\ [][/\ gameState = "Loading" /\ StartHall = {}
                => gameState' = "Loading"
          /\ gameState = "Playing" => gameState' = "Playing"
          /\ last'.op = "wait_for_start_hall"
                => gameState = "Loading" /\ gameState' = "Playing"
          /\ gameState = "Loading" /\ gameState' = "Playing"
                => last'.op = "wait_for_start_hall"
          /\ gameState' = "Playing" <=> currentLevel' # None]_vars
    /\ <>(gameState = "Playing")

\* still Playing after the skeleton walked into another level
C16_Witness ==
    /\ gameState = "Playing"
    /\ moves >= 1
    /\ last.op = "track_current_level"
    /\ currentLevel # None /\ currentLevel # Some(1)


\* the events of the step at whose location a level was spawned before the
\* step whose bounds are still unknown, lv being the levels before the step
PendingRequests(lv, reqs) ==
    {k \in DOMAIN reqs :
        \E i \in DOMAIN lv : lv[i].at = reqs[k] /\ ~lv[i].bounds_known}

\* C17: an event for a cell where a level was spawned but is not loaded,
\* and where no loaded level is, is not suppressed: the controller step
\* spawns one more level at the same location, which is then held by at
\* least two levels.
C17_PendingCellSpawnedAgain ==
    [][last'.op \in {"wait_for_start_hall", "track_current_level"} =>
          \A k \in PendingRequests(levels, last'.requests)
                      \cap FreeRequests(levels, last'.requests) :
              /\ \E n \in (Len(levels) + 1)..Len(levels') :
                    levels'[n].at = last'.requests[k]
              /\ Cardinality({i \in DOMAIN levels' :
                                 levels'[i].at = last'.requests[k]}) >= 2]_vars

\* the skeleton came back into the start hall while one of its neighbors was
\* still loading: track_current_level left two levels at that location
C17_Witness ==
    /\ last.op = "track_current_level"
    /\ currentLevel = Some(1)
    /\ \E k \in DOMAIN last.requests :
          \E i \in DOMAIN levels, j \in DOMAIN levels :
              /\ i < j
              /\ levels[i].at = last.requests[k]
              /\ levels[j].at = last.requests[k]
              /\ ~levels[i].bounds_known /\ ~levels[j].bounds_known


\* C18: a run of player_keyboard_commands with the skeleton inside a loaded
\* level leaves flip_x FALSE when right is held without left and without
\* both of up and down, TRUE when left is held without right and without
\* both of up and down, and unchanged for every other combination; the
\* obstacle grid and the outcome of the move play no part.
C18_FacingFollowsSideKey ==
    [][last'.op = "player_keyboard_commands" /\ ~InSpace =>
          LET up == last'.dir[1]
              right == last'.dir[2]
              down == last'.dir[3]
              left == last'.dir[4]
          IN flip_x' = IF right /\ ~left /\ ~(up /\ down) THEN FALSE
                       ELSE IF left /\ ~right /\ ~(up /\ down) THEN TRUE
                       ELSE flip_x]_vars

\* the skeleton now faces left although the move to the left was rejected
C18_Witness ==
    /\ Resolved /\ WasInside
    /\ last.dir = KEY_LEFT
    /\ Candidate # last.from
    /\ location = last.from
    /\ flip_x = TRUE


\* C19: the process never aborts: every level the controller holds is named
\* Start_Hall or Level_<c> with c in 0..14, so parse_level_code returns a
\* code for the level under the skeleton and for every neighbor a spawn
\* looks up.
C19_NoFatalPath ==
    /\ ~crashed
    /\ \A i \in DOMAIN levels :
          /\ levels[i].name \in PlainNames
          /\ CodeOf(i) # None /\ CodeOf(i)[1] \in 0..14

\* track_current_level parsed the name of a level other than the start
\* hall, and one of its events spawned Level_11: the draw 7 next to a wall
\* on the left, opened toward the level the event came from
C19_Witness ==
    /\ ~crashed
    /\ last.op = "track_current_level"
    /\ last.requests # <<>>
    /\ currentLevel # None /\ currentLevel # Some(1)
    /\ levels[Len(levels)].name = LevelName(11)
    /\ \E k \in DOMAIN last.requests :
          levels[Len(levels)].at = last.requests[k]


\* C20: in Playing, after every step, each direction that is open in the
\* code of the current level has a level, loaded or still loading, at the
\* neighboring cell in that direction.
C20_OpenEdgesHaveNeighbors ==
    gameState = "Playing" /\ currentLevel # None =>
        LET c == currentLevel[1]
        IN /\ CodeOf(c) # None
           /\ \A b \in 0..3 :
                 WallBit(CodeOf(c)[1], b) = 0 =>
                     \E i \in DOMAIN levels :
                         levels[i].at = CellToward(levels[c].at, b)

\* the current level is not the start hall, it is open to the right, and
\* the level to its right was spawned after the start hall's four
\* neighbors and is still loading
C20_Witness ==
    /\ gameState = "Playing"
    /\ last.op = "track_current_level"
    /\ currentLevel # None /\ currentLevel # Some(1)
    /\ WallBit(CodeOf(currentLevel[1])[1], 1) = 0
    /\ \E i \in DOMAIN levels :
          /\ i > 5
          /\ levels[i].at = CellToward(levels[currentLevel[1]].at, 1)
          /\ ~levels[i].bounds_known

=============================================================================
